---- MODULE Spec2Model ----
(***************************************************************************)
(* Instance lifecycle handlers of the panel: reinstall, edit, rename,      *)
(* environment-variable change and image change, and the three stored      *)
(* views of an instance they write: the per-instance record                *)
(* `${id}_instance`, the per-user list `${userId}_instances` and the       *)
(* global list `instances`.                                                *)
(*                                                                         *)
(* Every handler is an async function.  Each awaited store operation and   *)
(* each awaited node-agent call is one step of the request; the            *)
(* synchronous code between two awaits belongs to the step before it.  The *)
(* awaited authorization helper touches none of the modelled keys, so it   *)
(* is taken together with the read of the record that precedes it.         *)
(*                                                                         *)
(* Fields of an instance the handlers only copy (Node, Ports, Primary,     *)
(* VolumeId, timestamps) are always present and are not part of the model. *)
(***************************************************************************)
EXTENDS Integers, Sequences, FiniteSets, TLC

\* ---------------------------------------------------------------- bounds
MaxOps == 3          \* requests started in one behaviour
MaxSegs == 2         \* segments of a port-mapping string

\* ------------------------------------------------------------ value sets
Undef == "undefined"
InstIds == {"i1", "i2"}
AgentIds == {"c8", "c9"}
Keys == InstIds \cup AgentIds
Users == {"u1", "u2"}
Reqs == {1, 2}       \* requests that can be in flight together
Ops == {"reinstall", "edit", "rename", "env", "image"}

\* JavaScript numbers with an optional half, the "undefined" value and a
\* non-numeric string, as they arrive in a request body or sit in a record
Num(n) == [t |-> "num", n |-> n, h |-> FALSE]
Half(n) == [t |-> "num", n |-> n, h |-> TRUE]
NumUndef == [t |-> "undefined", n |-> 0, h |-> FALSE]
NumNaN == [t |-> "NaN", n |-> 0, h |-> FALSE]
NumStr == [t |-> "string", n |-> 0, h |-> FALSE]

Truthy(v) == v.t = "string" \/ (v.t = "num" /\ (v.n # 0 \/ v.h))
IsNaN(v) == v.t # "num"
LeqZero(v) == v.t = "num" /\ (v.n < 0 \/ (v.n = 0 /\ ~v.h))

parseIntBad(v) == v
parseInt(v) ==
    IF v.t # "num" THEN NumNaN
    ELSE IF v.n < 0 /\ v.h THEN Num(v.n + 1) ELSE Num(v.n)

Or(a, b) == IF Truthy(a) THEN a ELSE b
StrTruthy(s) == s # Undef /\ s # ""
StrOr(a, b) == IF StrTruthy(a) THEN a ELSE b

\* Env as stored: an array of KEY=VALUE strings (each a sequence of
\* characters), or no array at all
Arr(s) == [t |-> "array", a |-> s]
EnvUndef == [t |-> "undefined", a |-> <<>>]
EnvObject == [t |-> "object", a |-> <<>>]
IsArray(e) == e.t = "array"

\* the image catalog stored under the key `images`
images == << [Image |-> "img1", AltImages |-> <<"img2">>],
             [Image |-> "img2", AltImages |-> <<"img1">>] >>

NoInst == [Name |-> Undef, Id |-> Undef, User |-> Undef, ContainerId |-> Undef,
           Memory |-> NumUndef, Cpu |-> NumUndef, Image |-> Undef,
           AltImages |-> <<>>, imageData |-> [Image |-> Undef],
           currentimage |-> Undef, Env |-> EnvUndef, suspended |-> Undef]

NoReq == [op |-> "none", id |-> Undef, newName |-> Undef, variable |-> <<>>,
          value |-> <<>>, Image |-> Undef, Memory |-> NumUndef,
          Cpu |-> NumUndef, image |-> Undef, user |-> Undef]

NoHist == [found |-> FALSE, authorized |-> "unchecked", admin |-> "unchecked",
           agentCalled |-> FALSE, agentOk |-> FALSE, cid |-> Undef, wrote |-> {},
           migrated |-> FALSE, audited |-> FALSE, repeat |-> FALSE]

\* the port part of the request a builder hands to axios; "built" tells that
\* the builder has run on the current port string
Builders == {"redeploy", "reinstall"}
NoRequestData == [built |-> FALSE, ExposedPorts |-> {}, PortBindings |-> {}]

\* port-mapping strings of an instance: up to MaxSegs segments joined by ","
Segments == { <<"8", ":", "8">>, <<"9", ":", "9">>, <<"8", ":", "9">>,
              <<" ", "9", ":", "9">>, <<"8">>, <<"8", ":">>, <<":", "9">>, <<>> }
RECURSIVE Join(_)
Join(segs) ==
    IF segs = <<>> THEN <<>>
    ELSE IF Len(segs) = 1 THEN Head(segs)
    ELSE Head(segs) \o <<",">> \o Join(Tail(segs))
PortStrings == {Join(segs) : segs \in UNION {[1..n -> Segments] : n \in 0..MaxSegs}}

\* inputs of the requests
NewNames == {"ab", "web", "api"}
Variables == {<<"A">>, <<"B">>}
Values == {<<"1">>}
EditBodies == { [Image |-> Undef, Memory |-> NumUndef, Cpu |-> NumUndef],
                [Image |-> "img3", Memory |-> NumUndef, Cpu |-> NumUndef],
                [Image |-> Undef, Memory |-> Half(1), Cpu |-> Num(50)] }
\* bodies for the edits checked on their own: a zero, a negative and a
\* non-numeric limit besides
WideEditBodies ==
    EditBodies \cup
    { [Image |-> "img3", Memory |-> Num(0), Cpu |-> NumUndef],
      [Image |-> Undef, Memory |-> Num(-1), Cpu |-> NumUndef],
      [Image |-> Undef, Memory |-> NumUndef, Cpu |-> NumStr] }
NewImages == {"img2"}
\* inputs of the environment-variable changes checked on their own: a name
\* that holds an "=" and an omitted value besides
EnvVariables == Variables \cup {<<"A", "=", "B">>}
EnvValues == Values \cup {<<>>}

VARIABLES rec, ulist, glist, pc, req, instance, upd, lst, resp, h, nops, ports, requestData
vars == <<rec, ulist, glist, pc, req, instance, upd, lst, resp, h, nops, ports, requestData>>
store == <<rec, ulist, glist>>

InstanceKey(id) == id \o "_instance"
UserKey(u) == u \o "_instances"

\* --------------------------------------------------------- initial state
InitInstance(id, name, user, cid, env, susp) ==
    [Name |-> name, Id |-> id, User |-> user, ContainerId |-> cid,
     Memory |-> Num(512), Cpu |-> Num(100), Image |-> "img1",
     AltImages |-> <<"img2">>, imageData |-> [Image |-> "img1"],
     currentimage |-> Undef, Env |-> Arr(env), suspended |-> susp]

Init ==
    \E s \in {"true", Undef} :
        LET a == InitInstance("i1", "web", "u1", "c1", << <<"A", "=", "0">> >>, s)
            b == InitInstance("i2", "db1", "u1", "c2", <<>>, "false")
        IN  /\ rec = [k \in InstIds |-> IF k = "i1" THEN a ELSE b]
            /\ ulist = [u \in Users |-> IF u = "u1" THEN <<a, b>> ELSE <<>>]
            /\ glist = <<a, b>>
            /\ pc = [r \in Reqs |-> "idle"]
            /\ req = [r \in Reqs |-> NoReq]
            /\ instance = [r \in Reqs |-> NoInst]
            /\ upd = [r \in Reqs |-> NoInst]
            /\ lst = [r \in Reqs |-> <<>>]
            /\ resp = [r \in Reqs |-> "none"]
            /\ h = [r \in Reqs |-> NoHist]
            /\ nops = 0
            /\ ports = <<>>
            /\ requestData = [bd \in Builders |-> NoRequestData]

\* the same store with a second instance that was created without Env
InitNoEnv ==
    \E s \in {"true", Undef} :
        LET a == InitInstance("i1", "web", "u1", "c1", << <<"A", "=", "0">> >>, s)
            b == [InitInstance("i2", "db1", "u1", "c2", <<>>, "false")
                    EXCEPT !.Env = EnvUndef]
        IN  /\ rec = [k \in InstIds |-> IF k = "i1" THEN a ELSE b]
            /\ ulist = [u \in Users |-> IF u = "u1" THEN <<a, b>> ELSE <<>>]
            /\ glist = <<a, b>>
            /\ pc = [r \in Reqs |-> "idle"]
            /\ req = [r \in Reqs |-> NoReq]
            /\ instance = [r \in Reqs |-> NoInst]
            /\ upd = [r \in Reqs |-> NoInst]
            /\ lst = [r \in Reqs |-> <<>>]
            /\ resp = [r \in Reqs |-> "none"]
            /\ h = [r \in Reqs |-> NoHist]
            /\ nops = 0
            /\ ports = <<>>
            /\ requestData = [bd \in Builders |-> NoRequestData]

\* ---------------------------------------------------------------- helpers
\* envVar.split("=")[0]
RECURSIVE KeyOf(_)
KeyOf(envVar) ==
    IF envVar = <<>> \/ Head(envVar) = "=" THEN <<>>
    ELSE <<Head(envVar)>> \o KeyOf(Tail(envVar))

\* if (!isAuthorized) return res.status(403)...
UnauthorizedBad(isAuthorized) == FALSE
Unauthorized(isAuthorized) == ~isAuthorized

\* an awaited axios call without a timeout option to which the agent never
\* answers: the promise never settles and the handler stays at its await
NeverAnswered(r) ==
    /\ pc' = [pc EXCEPT ![r] = "hung"]
    /\ UNCHANGED resp

Finish(r, code) ==
    /\ pc' = [pc EXCEPT ![r] = "done"]
    /\ resp' = [resp EXCEPT ![r] = code]

\* db.set(key, value) on the per-instance records
Put(f, k, v) == [x \in DOMAIN f \cup {k} |-> IF x = k THEN v ELSE f[x]]
\* db.del(key)
Del(f, k) == [x \in DOMAIN f \ {k} |-> f[x]]

Wrote(r, key) == [h EXCEPT ![r].wrote = @ \cup {key}]

CanStart(r) == pc[r] \in {"idle", "done"} /\ nops < MaxOps

Begin(r, q) ==
    /\ CanStart(r)
    /\ nops' = nops + 1
    /\ req' = [req EXCEPT ![r] = q]
    /\ instance' = [instance EXCEPT ![r] = NoInst]
    /\ upd' = [upd EXCEPT ![r] = NoInst]
    /\ lst' = [lst EXCEPT ![r] = <<>>]
    /\ UNCHANGED <<store, ports, requestData>>

\* ------------------------------------------- updateInstanceInUserAndGlobalArrays
\* list.filter(instance => instance.Id !== instanceData.Id); list.push(instanceData)
ReplacedBad(list, data) == Append(list, data)
Replaced(list, data) ==
    Append(SelectSeq(list, LAMBDA e : e.Id # data.Id), data)

UsesArrays(r) == req[r].op \in {"env", "rename", "image"}

ArraysUserGet(r) ==
    /\ pc[r] = "ul_get" /\ UsesArrays(r)
    /\ lst' = [lst EXCEPT ![r] = ulist[upd[r].User]]
    /\ pc' = [pc EXCEPT ![r] = "ul_set"]
    /\ UNCHANGED <<store, req, instance, upd, resp, h, nops, ports, requestData>>

ArraysUserSet(r) ==
    /\ pc[r] = "ul_set" /\ UsesArrays(r)
    /\ ulist' = [ulist EXCEPT ![upd[r].User] = Replaced(lst[r], upd[r])]
    /\ h' = Wrote(r, UserKey(upd[r].User))
    /\ pc' = [pc EXCEPT ![r] = "gl_get"]
    /\ UNCHANGED <<rec, glist, req, instance, upd, lst, resp, nops, ports, requestData>>

ArraysGlobalGet(r) ==
    /\ pc[r] = "gl_get" /\ UsesArrays(r)
    /\ lst' = [lst EXCEPT ![r] = glist]
    /\ pc' = [pc EXCEPT ![r] = "gl_set"]
    /\ UNCHANGED <<store, req, instance, upd, resp, h, nops, ports, requestData>>

\* the last write of updateInstanceInUserAndGlobalArrays and what its caller
\* does up to its next await: env-change logs and answers, rename goes on to
\* the node, image change writes the per-instance record
ArraysGlobalSet(r) ==
    /\ pc[r] = "gl_set" /\ UsesArrays(r)
    /\ glist' = Replaced(lst[r], upd[r])
    /\ IF req[r].op = "env"
       THEN /\ h' = [Wrote(r, "instances") EXCEPT ![r].audited = TRUE]
            /\ Finish(r, "success")
       ELSE /\ h' = Wrote(r, "instances")
            /\ pc' = [pc EXCEPT ![r] = IF req[r].op = "rename" THEN "notify" ELSE "setrec"]
            /\ UNCHANGED resp
    /\ UNCHANGED <<rec, ulist, req, instance, upd, lst, nops, ports, requestData>>

\* ------------------------------ POST /instances/startup/changevariable/:id
\* instance.Env.map(...) and the push of a variable that was not there
RECURSIVE MapEnv(_, _, _)
MapEnv(env, variable, value) ==
    IF env = <<>> THEN <<>>
    ELSE LET key == KeyOf(Head(env))
         IN  << IF key = variable THEN key \o <<"=">> \o value ELSE Head(env) >>
             \o MapEnv(Tail(env), variable, value)

updatedEnvBad(env, variable, value) ==
    Append(env, variable \o <<"=">> \o value)
updatedEnv(env, variable, value) ==
    IF \E i \in 1..Len(env) : KeyOf(env[i]) = variable
    THEN MapEnv(env, variable, value)
    ELSE Append(MapEnv(env, variable, value), variable \o <<"=">> \o value)

\* the request repeats the env-change this client has just been answered
\* with success
RepeatsLast(r, id, variable, value) ==
    /\ req[r].op = "env" /\ pc[r] = "done" /\ resp[r] = "success"
    /\ req[r].id = id /\ req[r].variable = variable /\ req[r].value = value

StartEnv(r, id, variable, value) ==
    /\ Begin(r, [NoReq EXCEPT !.op = "env", !.id = id, !.variable = variable,
                               !.value = value])
    /\ h' = [h EXCEPT ![r] = [NoHist EXCEPT !.repeat = RepeatsLast(r, id, variable, value)]]
    /\ IF variable = <<>>
       THEN Finish(r, "400")
       ELSE /\ pc' = [pc EXCEPT ![r] = "get"]
            /\ resp' = [resp EXCEPT ![r] = "none"]

\* from the suspension check on, for a record read as inst
EnvChange(r, inst) ==
    IF inst.suspended = "true"
    THEN /\ Finish(r, "403_suspended")
         /\ UNCHANGED upd
    ELSE IF ~IsArray(inst.Env)
    THEN /\ Finish(r, "500")
         /\ UNCHANGED upd
    ELSE /\ upd' = [upd EXCEPT ![r] =
                [inst EXCEPT !.Env = Arr(updatedEnv(inst.Env.a, req[r].variable,
                                                    req[r].value))]]
         /\ pc' = [pc EXCEPT ![r] = "setrec"]
         /\ UNCHANGED resp

EnvGet(r) ==
    /\ pc[r] = "get" /\ req[r].op = "env"
    /\ IF req[r].id \notin DOMAIN rec
       THEN /\ Finish(r, "404")
            /\ UNCHANGED <<instance, upd, h>>
       ELSE \E isAuthorized \in BOOLEAN :
            LET inst == rec[req[r].id] IN
            /\ h' = [h EXCEPT ![r].found = TRUE,
                              ![r].authorized = IF isAuthorized THEN "true" ELSE "false"]
            /\ IF Unauthorized(isAuthorized)
               THEN /\ Finish(r, "403")
                    /\ instance' = [instance EXCEPT ![r] = inst]
                    /\ UNCHANGED upd
               ELSE IF inst.suspended = Undef
               THEN /\ instance' = [instance EXCEPT ![r] = [inst EXCEPT !.suspended = "false"]]
                    /\ pc' = [pc EXCEPT ![r] = "migrate"]
                    /\ UNCHANGED <<upd, resp>>
               ELSE /\ instance' = [instance EXCEPT ![r] = inst]
                    /\ EnvChange(r, inst)
    /\ UNCHANGED <<store, req, lst, nops, ports, requestData>>

EnvMigrate(r) ==
    /\ pc[r] = "migrate" /\ req[r].op = "env"
    /\ rec' = Put(rec, req[r].id, instance[r])
    /\ h' = [Wrote(r, InstanceKey(req[r].id)) EXCEPT ![r].migrated = TRUE]
    /\ EnvChange(r, instance[r])
    /\ UNCHANGED <<ulist, glist, req, instance, lst, nops, ports, requestData>>

EnvSetRec(r) ==
    /\ pc[r] = "setrec" /\ req[r].op = "env"
    /\ rec' = Put(rec, req[r].id, upd[r])
    /\ h' = Wrote(r, InstanceKey(req[r].id))
    /\ pc' = [pc EXCEPT ![r] = "ul_get"]
    /\ UNCHANGED <<ulist, glist, req, instance, upd, lst, resp, nops, ports, requestData>>

\* ------------------------------------ POST /instance/:id/change/name/:name
StartRename(r, id, newName) ==
    /\ Begin(r, [NoReq EXCEPT !.op = "rename", !.id = id, !.newName = newName])
    /\ h' = [h EXCEPT ![r] = NoHist]
    /\ IF ~StrTruthy(newName) \/ Len(newName) < 3 \/ Len(newName) > 32
       THEN Finish(r, "400")
       ELSE /\ pc' = [pc EXCEPT ![r] = "get"]
            /\ resp' = [resp EXCEPT ![r] = "none"]

RenameGet(r) ==
    /\ pc[r] = "get" /\ req[r].op = "rename"
    /\ IF req[r].id \notin DOMAIN rec
       THEN /\ Finish(r, "404")
            /\ UNCHANGED <<instance, h>>
       ELSE \E isAuthorized \in BOOLEAN :
            LET inst == rec[req[r].id] IN
            /\ h' = [h EXCEPT ![r].found = TRUE,
                              ![r].authorized = IF isAuthorized THEN "true" ELSE "false"]
            /\ instance' = [instance EXCEPT ![r] = inst]
            /\ IF Unauthorized(isAuthorized)
               THEN Finish(r, "403")
               ELSE IF inst.suspended = "true"
               THEN Finish(r, "403_suspended")
               ELSE /\ pc' = [pc EXCEPT ![r] = "chk"]
                    /\ UNCHANGED resp
    /\ UNCHANGED <<store, req, upd, lst, nops, ports, requestData>>

\* allInstances.some(inst => inst.Name === newName && inst.Id !== id)
nameExistsBad(allInstances, newName, id) == FALSE
nameExists(allInstances, newName, id) ==
    \E i \in 1..Len(allInstances) :
        allInstances[i].Name = newName /\ allInstances[i].Id # id

RenameCheck(r) ==
    /\ pc[r] = "chk" /\ req[r].op = "rename"
    /\ IF nameExists(glist, req[r].newName, req[r].id)
       THEN /\ Finish(r, "400")
            /\ UNCHANGED upd
       ELSE /\ upd' = [upd EXCEPT ![r] = [instance[r] EXCEPT !.Name = req[r].newName]]
            /\ pc' = [pc EXCEPT ![r] = "setrec"]
            /\ UNCHANGED resp
    /\ UNCHANGED <<store, req, instance, lst, h, nops, ports, requestData>>

RenameSetRec(r) ==
    /\ pc[r] = "setrec" /\ req[r].op = "rename"
    /\ rec' = Put(rec, req[r].id, upd[r])
    /\ h' = Wrote(r, InstanceKey(req[r].id))
    /\ pc' = [pc EXCEPT ![r] = "ul_get"]
    /\ UNCHANGED <<ulist, glist, req, instance, upd, lst, resp, nops, ports, requestData>>

\* the best-effort notification of the node; its failure is only logged, and
\* the axios call is given no timeout
RenameNotifyBad(r) ==
    /\ pc[r] = "notify" /\ req[r].op = "rename"
    /\ IF StrTruthy(instance[r].ContainerId)
       THEN \E ok \in BOOLEAN :
                /\ h' = [h EXCEPT ![r].agentCalled = TRUE, ![r].agentOk = ok,
                                  ![r].audited = ok]
                /\ Finish(r, IF ok THEN "success" ELSE "500")
       ELSE /\ h' = [h EXCEPT ![r].audited = TRUE]
            /\ Finish(r, "success")
    /\ UNCHANGED <<store, req, instance, upd, lst, nops, ports, requestData>>
RenameNotify(r) ==
    /\ pc[r] = "notify" /\ req[r].op = "rename"
    /\ IF StrTruthy(instance[r].ContainerId)
       THEN \/ \E ok \in BOOLEAN :
                /\ h' = [h EXCEPT ![r].agentCalled = TRUE, ![r].agentOk = ok,
                                  ![r].audited = TRUE]
                /\ Finish(r, "success")
            \/ /\ h' = [h EXCEPT ![r].agentCalled = TRUE]
               /\ NeverAnswered(r)
       ELSE /\ h' = [h EXCEPT ![r].audited = TRUE]
            /\ Finish(r, "success")
    /\ UNCHANGED <<store, req, instance, upd, lst, nops, ports, requestData>>

\* ------------------------------------------------------------ node agent
\* container ids some view or some request in flight holds
UsedCids ==
    {rec[k].ContainerId : k \in DOMAIN rec}
    \cup {glist[i].ContainerId : i \in 1..Len(glist)}
    \cup UNION {{ulist[u][i].ContainerId : i \in 1..Len(ulist[u])} : u \in Users}
    \cup {upd[q].ContainerId : q \in Reqs}

\* what the agent can answer as the id of the container it (re)created: an
\* id no other container has, or the id of the container it was asked about
AgentAnswers(r) ==
    (AgentIds \ UsedCids) \cup ({instance[r].ContainerId} \cap AgentIds)

\* rawImages.find(i => i.Image === image)
InCatalog(image) == \E i \in 1..Len(images) : images[i].Image = image
AltImagesOf(image) ==
    IF InCatalog(image)
    THEN images[CHOOSE i \in 1..Len(images) : images[i].Image = image].AltImages
    ELSE <<>>

\* ------------------------------------ GET /instances/startup/changeimage/:id
StartImage(r, id, image, user) ==
    /\ Begin(r, [NoReq EXCEPT !.op = "image", !.id = id, !.image = image,
                               !.user = user])
    /\ h' = [h EXCEPT ![r] = NoHist]
    /\ pc' = [pc EXCEPT ![r] = "get"]
    /\ resp' = [resp EXCEPT ![r] = "none"]

\* from the suspension check to the call of the agent
ImageChange(r, inst) ==
    IF inst.suspended = "true"
    THEN Finish(r, "redirect_suspended")
    ELSE IF ~StrTruthy(req[r].image) \/ ~StrTruthy(req[r].user)
    THEN Finish(r, "400")
    ELSE /\ pc' = [pc EXCEPT ![r] = "agent"]
         /\ UNCHANGED resp

ImageGet(r) ==
    /\ pc[r] = "get" /\ req[r].op = "image"
    /\ IF req[r].id \notin DOMAIN rec
       THEN /\ Finish(r, "redirect_notfound")
            /\ UNCHANGED <<instance, h>>
       ELSE \E isAuthorized \in BOOLEAN :
            LET inst == rec[req[r].id] IN
            /\ h' = [h EXCEPT ![r].found = TRUE,
                              ![r].authorized = IF isAuthorized THEN "true" ELSE "false"]
            /\ IF Unauthorized(isAuthorized)
               THEN /\ Finish(r, "403")
                    /\ instance' = [instance EXCEPT ![r] = inst]
               ELSE IF inst.suspended = Undef
               THEN /\ instance' = [instance EXCEPT ![r] = [inst EXCEPT !.suspended = "false"]]
                    /\ pc' = [pc EXCEPT ![r] = "migrate"]
                    /\ UNCHANGED resp
               ELSE /\ instance' = [instance EXCEPT ![r] = inst]
                    /\ ImageChange(r, inst)
    /\ UNCHANGED <<store, req, upd, lst, nops, ports, requestData>>

ImageMigrate(r) ==
    /\ pc[r] = "migrate" /\ req[r].op = "image"
    /\ rec' = Put(rec, req[r].id, instance[r])
    /\ h' = [Wrote(r, InstanceKey(req[r].id)) EXCEPT ![r].migrated = TRUE]
    /\ ImageChange(r, instance[r])
    /\ UNCHANGED <<ulist, glist, req, instance, upd, lst, nops, ports, requestData>>

\* instanceData of updateDatabaseWithNewInstance (Startup.js), called with
\* image = instance.imageData.Image and currentimage = the requested image
ImageInstanceDataBad(inst, id, userId, currentimage, containerId) ==
    [Name |-> inst.Name, Id |-> id, User |-> userId, ContainerId |-> containerId,
     Memory |-> Or(parseInt(inst.Memory), Num(0)),
     Cpu |-> Or(parseInt(inst.Cpu), Num(0)),
     Image |-> currentimage,
     AltImages |-> AltImagesOf(currentimage),
     imageData |-> inst.imageData,
     currentimage |-> inst.imageData.Image,
     Env |-> IF IsArray(inst.Env) THEN inst.Env ELSE Arr(<<>>),
     suspended |-> "false"]
ImageInstanceData(inst, id, userId, currentimage, containerId) ==
    [Name |-> inst.Name, Id |-> id, User |-> userId, ContainerId |-> containerId,
     Memory |-> Or(parseInt(inst.Memory), Num(0)),
     Cpu |-> Or(parseInt(inst.Cpu), Num(0)),
     Image |-> inst.imageData.Image,
     AltImages |-> AltImagesOf(inst.imageData.Image),
     imageData |-> inst.imageData,
     currentimage |-> currentimage,
     Env |-> IF IsArray(inst.Env) THEN inst.Env ELSE Arr(<<>>),
     suspended |-> "false"]

\* axios(requestData): the call throws, or answers with a body whose
\* containerId the handler does not look at before it stores it, or, the
\* request data of this builder having no timeout, stays unanswered
ImageAgent(r) ==
    /\ pc[r] = "agent" /\ req[r].op = "image"
    /\ \/ /\ h' = [h EXCEPT ![r].agentCalled = TRUE]
          /\ Finish(r, "500")
          /\ UNCHANGED upd
       \/ /\ h' = [h EXCEPT ![r].agentCalled = TRUE]
          /\ NeverAnswered(r)
          /\ UNCHANGED upd
       \/ \E containerId \in AgentAnswers(r) \cup {Undef} :
          /\ h' = [h EXCEPT ![r].agentCalled = TRUE, ![r].agentOk = TRUE,
                            ![r].cid = containerId]
          /\ upd' = [upd EXCEPT ![r] =
                ImageInstanceData(instance[r], req[r].id, req[r].user,
                                  req[r].image, containerId)]
          /\ pc' = [pc EXCEPT ![r] = "ul_get"]
          /\ UNCHANGED resp
    /\ UNCHANGED <<store, req, instance, lst, nops, ports, requestData>>

ImageSetRec(r) ==
    /\ pc[r] = "setrec" /\ req[r].op = "image"
    /\ rec' = Put(rec, req[r].id, upd[r])
    /\ h' = [Wrote(r, InstanceKey(req[r].id)) EXCEPT ![r].audited = TRUE]
    /\ Finish(r, "success")
    /\ UNCHANGED <<ulist, glist, req, instance, upd, lst, nops, ports, requestData>>

\* ----------------------------------------------- POST /instance/reinstall/:id
StartReinstall(r, id) ==
    /\ Begin(r, [NoReq EXCEPT !.op = "reinstall", !.id = id])
    /\ h' = [h EXCEPT ![r] = NoHist]
    /\ pc' = [pc EXCEPT ![r] = "get"]
    /\ resp' = [resp EXCEPT ![r] = "none"]

ReinstallGet(r) ==
    /\ pc[r] = "get" /\ req[r].op = "reinstall"
    /\ IF req[r].id \notin DOMAIN rec
       THEN /\ Finish(r, "redirect_notfound")
            /\ UNCHANGED <<instance, h>>
       ELSE \E isAuthorized \in BOOLEAN :
            LET inst == rec[req[r].id] IN
            /\ h' = [h EXCEPT ![r].found = TRUE,
                              ![r].authorized = IF isAuthorized THEN "true" ELSE "false"]
            /\ instance' = [instance EXCEPT ![r] = inst]
            /\ IF Unauthorized(isAuthorized)
               THEN Finish(r, "403")
               ELSE IF inst.suspended = "true"
               THEN Finish(r, "redirect_suspended")
               ELSE IF \/ ~StrTruthy(inst.Image) \/ ~Truthy(inst.Memory)
                       \/ ~Truthy(inst.Cpu) \/ ~StrTruthy(inst.Name)
                       \/ ~StrTruthy(inst.User)
               THEN Finish(r, "400")
               ELSE /\ pc' = [pc EXCEPT ![r] = "agent"]
                    /\ UNCHANGED resp
    /\ UNCHANGED <<store, req, upd, lst, nops, ports, requestData>>

\* instanceData of updateDatabaseWithNewInstance (reinstall)
ReinstallInstanceData(inst, id, containerId) ==
    [Name |-> inst.Name, Id |-> id, User |-> inst.User, ContainerId |-> containerId,
     Memory |-> Or(parseInt(inst.Memory), Num(512)),
     Cpu |-> Or(parseInt(inst.Cpu), Num(100)),
     Image |-> inst.Image,
     AltImages |-> AltImagesOf(inst.Image),
     imageData |-> [Image |-> IF InCatalog(inst.Image) THEN inst.Image ELSE Undef],
     currentimage |-> Undef,
     Env |-> IF inst.Env.t = "undefined" THEN EnvObject ELSE inst.Env,
     suspended |-> Undef]

\* axios(requestData) and the check of response.data.containerId; the call
\* throws on an error answer and, with timeout: 30000, on no answer
ReinstallAgentBad(r) ==
    /\ pc[r] = "agent" /\ req[r].op = "reinstall"
    /\ h' = [h EXCEPT ![r].agentCalled = TRUE]
    /\ upd' = [upd EXCEPT ![r] =
            ReinstallInstanceData(instance[r], req[r].id, instance[r].ContainerId)]
    /\ pc' = [pc EXCEPT ![r] = "ul_get"]
    /\ UNCHANGED <<store, req, instance, lst, resp, nops, ports, requestData>>
ReinstallAgent(r) ==
    /\ pc[r] = "agent" /\ req[r].op = "reinstall"
    /\ \/ /\ h' = [h EXCEPT ![r].agentCalled = TRUE]
          /\ Finish(r, "500")
          /\ UNCHANGED upd
       \/ \E containerId \in AgentAnswers(r) \cup {Undef} :
          /\ h' = [h EXCEPT ![r].agentCalled = TRUE, ![r].agentOk = TRUE,
                            ![r].cid = containerId]
          /\ IF ~StrTruthy(containerId)
             THEN /\ Finish(r, "500")
                  /\ UNCHANGED upd
             ELSE /\ upd' = [upd EXCEPT ![r] =
                        ReinstallInstanceData(instance[r], req[r].id, containerId)]
                  /\ pc' = [pc EXCEPT ![r] = "ul_get"]
                  /\ UNCHANGED resp
    /\ UNCHANGED <<store, req, instance, lst, nops, ports, requestData>>

ReinstallUserGet(r) ==
    /\ pc[r] = "ul_get" /\ req[r].op = "reinstall"
    /\ lst' = [lst EXCEPT ![r] = ulist[upd[r].User]]
    /\ pc' = [pc EXCEPT ![r] = "ul_set"]
    /\ UNCHANGED <<store, req, instance, upd, resp, h, nops, ports, requestData>>

ReinstallUserSet(r) ==
    /\ pc[r] = "ul_set" /\ req[r].op = "reinstall"
    /\ ulist' = [ulist EXCEPT ![upd[r].User] = Replaced(lst[r], upd[r])]
    /\ h' = Wrote(r, UserKey(upd[r].User))
    /\ pc' = [pc EXCEPT ![r] = "gl_get"]
    /\ UNCHANGED <<rec, glist, req, instance, upd, lst, resp, nops, ports, requestData>>

ReinstallGlobalGet(r) ==
    /\ pc[r] = "gl_get" /\ req[r].op = "reinstall"
    /\ lst' = [lst EXCEPT ![r] = glist]
    /\ pc' = [pc EXCEPT ![r] = "gl_set"]
    /\ UNCHANGED <<store, req, instance, upd, resp, h, nops, ports, requestData>>

ReinstallGlobalSet(r) ==
    /\ pc[r] = "gl_set" /\ req[r].op = "reinstall"
    /\ glist' = Replaced(lst[r], upd[r])
    /\ h' = Wrote(r, "instances")
    /\ pc' = [pc EXCEPT ![r] = "setrec"]
    /\ UNCHANGED <<rec, ulist, req, instance, upd, lst, resp, nops, ports, requestData>>

ReinstallSetRec(r) ==
    /\ pc[r] = "setrec" /\ req[r].op = "reinstall"
    /\ rec' = Put(rec, req[r].id, upd[r])
    /\ h' = [Wrote(r, InstanceKey(req[r].id)) EXCEPT ![r].audited = TRUE]
    /\ Finish(r, "success")
    /\ UNCHANGED <<ulist, glist, req, instance, upd, lst, nops, ports, requestData>>

\* --------------------------------------------------- PUT /instances/edit/:id
\* isAdmin and the validation of the request body
StartEdit(r, id, Image, Memory, Cpu) ==
    /\ Begin(r, [NoReq EXCEPT !.op = "edit", !.id = id, !.Image = Image,
                               !.Memory = Memory, !.Cpu = Cpu])
    /\ \E admin \in BOOLEAN :
        /\ h' = [h EXCEPT ![r] =
                    [NoHist EXCEPT !.admin = IF admin THEN "true" ELSE "false"]]
        /\ IF ~admin
           THEN Finish(r, "403")
           ELSE IF ~StrTruthy(Image) /\ ~Truthy(Memory) /\ ~Truthy(Cpu)
           THEN Finish(r, "400")
           ELSE IF Truthy(Memory) /\ (IsNaN(Memory) \/ LeqZero(Memory))
           THEN Finish(r, "400")
           ELSE IF Truthy(Cpu) /\ (IsNaN(Cpu) \/ LeqZero(Cpu))
           THEN Finish(r, "400")
           ELSE /\ pc' = [pc EXCEPT ![r] = "get"]
                /\ resp' = [resp EXCEPT ![r] = "none"]

EditGet(r) ==
    /\ pc[r] = "get" /\ req[r].op = "edit"
    /\ IF req[r].id \notin DOMAIN rec
       THEN /\ Finish(r, "404")
            /\ UNCHANGED <<instance, h>>
       ELSE /\ h' = [h EXCEPT ![r].found = TRUE]
            /\ instance' = [instance EXCEPT ![r] = rec[req[r].id]]
            /\ pc' = [pc EXCEPT ![r] = "agent"]
            /\ UNCHANGED resp
    /\ UNCHANGED <<store, req, upd, lst, nops, ports, requestData>>

\* updatedInstance of updateInstanceInDatabase
updatedInstance(inst, Image, Memory, Cpu, newContainerId) ==
    [inst EXCEPT !.Image = StrOr(Image, inst.Image),
                 !.Memory = Or(Memory, inst.Memory),
                 !.Cpu = Or(Cpu, inst.Cpu),
                 !.ContainerId = newContainerId]

\* axios(requestData) and the check of response.data.newContainerId; the
\* call throws on an error answer and, with timeout: 10000, on no answer
EditAgent(r) ==
    /\ pc[r] = "agent" /\ req[r].op = "edit"
    /\ \/ /\ h' = [h EXCEPT ![r].agentCalled = TRUE]
          /\ Finish(r, "500")
          /\ UNCHANGED upd
       \/ \E newContainerId \in AgentAnswers(r) \cup {Undef} :
          /\ h' = [h EXCEPT ![r].agentCalled = TRUE, ![r].agentOk = TRUE,
                            ![r].cid = newContainerId]
          /\ IF ~StrTruthy(newContainerId)
             THEN /\ Finish(r, "500")
                  /\ UNCHANGED upd
             ELSE /\ upd' = [upd EXCEPT ![r] =
                        updatedInstance(instance[r], req[r].Image, req[r].Memory,
                                        req[r].Cpu, newContainerId)]
                  /\ pc' = [pc EXCEPT ![r] = "batch"]
                  /\ UNCHANGED resp
    /\ UNCHANGED <<store, req, instance, lst, nops, ports, requestData>>

\* db.batch().set(`${newContainerId}_instance`, ...).del(`${id}_instance`).write()
EditBatch(r) ==
    /\ pc[r] = "batch" /\ req[r].op = "edit"
    /\ rec' = Del(Put(rec, upd[r].ContainerId, upd[r]), req[r].id)
    /\ h' = [h EXCEPT ![r].wrote = @ \cup {InstanceKey(upd[r].ContainerId),
                                           InstanceKey(req[r].id)}]
    /\ pc' = [pc EXCEPT ![r] = "ul_get"]
    /\ UNCHANGED <<ulist, glist, req, instance, upd, lst, resp, nops, ports, requestData>>

\* list.findIndex(inst => inst.ContainerId === oldContainerId)
\* (index of the first such entry, 0 for the -1 of findIndex)
instanceIndexBad(list, oldContainerId, inst) ==
    IF \E i \in 1..Len(list) : list[i].Id = inst.Id
    THEN CHOOSE i \in 1..Len(list) :
            /\ list[i].Id = inst.Id
            /\ \A j \in 1..(i - 1) : list[j].Id # inst.Id
    ELSE 0
instanceIndex(list, oldContainerId, inst) ==
    IF \E i \in 1..Len(list) : list[i].ContainerId = oldContainerId
    THEN CHOOSE i \in 1..Len(list) :
            /\ list[i].ContainerId = oldContainerId
            /\ \A j \in 1..(i - 1) : list[j].ContainerId # oldContainerId
    ELSE 0

\* { ...list[instanceIndex], ...updatedInstance }: the properties of the
\* updated record win, a property it does not have is kept from the entry
Spread(entry, u) ==
    [entry EXCEPT !.Name = IF u.Name = Undef THEN @ ELSE u.Name,
                  !.Id = IF u.Id = Undef THEN @ ELSE u.Id,
                  !.User = IF u.User = Undef THEN @ ELSE u.User,
                  !.ContainerId = u.ContainerId,
                  !.Memory = u.Memory,
                  !.Cpu = u.Cpu,
                  !.Image = u.Image,
                  !.AltImages = u.AltImages,
                  !.imageData = u.imageData,
                  !.currentimage = IF u.currentimage = Undef THEN @ ELSE u.currentimage,
                  !.Env = IF u.Env.t = "undefined" THEN @ ELSE u.Env,
                  !.suspended = IF u.suspended = Undef THEN @ ELSE u.suspended]

\* updateUserInstances: the read and the search
EditUserGet(r) ==
    /\ pc[r] = "ul_get" /\ req[r].op = "edit"
    /\ lst' = [lst EXCEPT ![r] = ulist[instance[r].User]]
    /\ pc' = [pc EXCEPT ![r] =
            IF instanceIndex(ulist[instance[r].User], req[r].id, instance[r]) # 0
            THEN "ul_set" ELSE "gl_get"]
    /\ UNCHANGED <<store, req, instance, upd, resp, h, nops, ports, requestData>>

EditUserSet(r) ==
    /\ pc[r] = "ul_set" /\ req[r].op = "edit"
    /\ LET i == instanceIndex(lst[r], req[r].id, instance[r])
       IN  ulist' = [ulist EXCEPT ![instance[r].User] =
                        [lst[r] EXCEPT ![i] = Spread(lst[r][i], upd[r])]]
    /\ h' = Wrote(r, UserKey(instance[r].User))
    /\ pc' = [pc EXCEPT ![r] = "gl_get"]
    /\ UNCHANGED <<rec, glist, req, instance, upd, lst, resp, nops, ports, requestData>>

\* updateGlobalInstances: the read and the search; with no entry found the
\* handler logs and answers
EditGlobalGet(r) ==
    /\ pc[r] = "gl_get" /\ req[r].op = "edit"
    /\ lst' = [lst EXCEPT ![r] = glist]
    /\ IF instanceIndex(glist, req[r].id, instance[r]) # 0
       THEN /\ pc' = [pc EXCEPT ![r] = "gl_set"]
            /\ UNCHANGED <<resp, h>>
       ELSE /\ h' = [h EXCEPT ![r].audited = TRUE]
            /\ Finish(r, "success")
    /\ UNCHANGED <<store, req, instance, upd, nops, ports, requestData>>

EditGlobalSet(r) ==
    /\ pc[r] = "gl_set" /\ req[r].op = "edit"
    /\ LET i == instanceIndex(lst[r], req[r].id, instance[r])
       IN  glist' = [lst[r] EXCEPT ![i] = Spread(lst[r][i], upd[r])]
    /\ h' = [Wrote(r, "instances") EXCEPT ![r].audited = TRUE]
    /\ Finish(r, "success")
    /\ UNCHANGED <<rec, ulist, req, instance, upd, lst, nops, ports, requestData>>

\* ------------------------------------------------------- prepareRequestData
\* String.prototype.split(sep) for a separator of one character
RECURSIVE Split(_, _)
Split(s, sep) ==
    IF \E i \in 1..Len(s) : s[i] = sep
    THEN LET i == CHOOSE k \in 1..Len(s) :
                    s[k] = sep /\ \A j \in 1..(k - 1) : s[j] # sep
         IN  <<SubSeq(s, 1, i - 1)>> \o Split(SubSeq(s, i + 1, Len(s)), sep)
    ELSE <<s>>

\* String.prototype.trim()
RECURSIVE Trim(_)
Trim(s) ==
    IF s = <<>> THEN s
    ELSE IF Head(s) = " " THEN Trim(Tail(s))
    ELSE IF s[Len(s)] = " " THEN Trim(SubSeq(s, 1, Len(s) - 1))
    ELSE s

\* PortBindings[key] = [{ HostPort: hostPort }]: a later assignment to the
\* same key replaces the earlier one
Bind(PortBindings, key, hostPort) ==
    {e \in PortBindings : e[1] # key} \cup {<<key, hostPort>>}

\* the body of the forEach over ports.split(","); trim tells whether the two
\* sides are trimmed (reinstall) or taken as they are (redeploy)
RECURSIVE forEachPortMapping(_, _, _)
forEachPortMapping(data, portMappings, trim) ==
    IF portMappings = <<>> THEN data
    ELSE LET sides == Split(Head(portMappings), ":")
             c == sides[1]
             hp == IF Len(sides) >= 2 THEN sides[2] ELSE <<>>
             containerPort == IF trim THEN Trim(c) ELSE c
             hostPort == IF trim THEN Trim(hp) ELSE hp
             key == containerPort \o <<"/tcp">>
         IN  forEachPortMapping(
                IF containerPort # <<>> /\ hostPort # <<>>
                THEN [data EXCEPT !.ExposedPorts = @ \cup {key},
                                  !.PortBindings = Bind(@, key, hostPort)]
                ELSE data,
                Tail(portMappings), trim)

\* the Ports field of the instance whose request is built
PortsGiven(p) ==
    /\ ports' = p
    /\ requestData' = [bd \in Builders |-> NoRequestData]
    /\ UNCHANGED <<rec, ulist, glist, pc, req, instance, upd, lst, resp, h, nops>>

\* prepareRequestData of Startup.js (image change)
prepareRequestData ==
    /\ ~requestData["redeploy"].built
    /\ requestData' = [requestData EXCEPT !["redeploy"] =
            IF ports # <<>>
            THEN forEachPortMapping([NoRequestData EXCEPT !.built = TRUE],
                                    Split(ports, ","), FALSE)
            ELSE [NoRequestData EXCEPT !.built = TRUE]]
    /\ UNCHANGED <<rec, ulist, glist, pc, req, instance, upd, lst, resp, h, nops, ports>>

\* prepareRequestData of the reinstall route
prepareReinstallRequestData ==
    /\ ~requestData["reinstall"].built
    /\ requestData' = [requestData EXCEPT !["reinstall"] =
            IF ports # <<>>
            THEN forEachPortMapping([NoRequestData EXCEPT !.built = TRUE],
                                    Split(ports, ","), TRUE)
            ELSE [NoRequestData EXCEPT !.built = TRUE]]
    /\ UNCHANGED <<rec, ulist, glist, pc, req, instance, upd, lst, resp, h, nops, ports>>

\* ------------------------------------------------- suspension, set externally
\* an administrator suspends an instance: the flag of its record becomes true
Suspend(k) ==
    /\ k \in DOMAIN rec /\ rec[k].suspended # "true"
    /\ rec' = [rec EXCEPT ![k].suspended = "true"]
    /\ UNCHANGED <<ulist, glist, pc, req, instance, upd, lst, resp, h, nops,
                   ports, requestData>>

\* ------------------------------------------------------------ the system
Start(r) ==
    \/ \E id \in Keys, variable \in Variables, value \in Values :
            StartEnv(r, id, variable, value)
    \/ \E id \in Keys, newName \in NewNames : StartRename(r, id, newName)
    \/ \E id \in Keys, image \in NewImages, user \in Users :
            StartImage(r, id, image, user)
    \/ \E id \in Keys : StartReinstall(r, id)
    \/ \E id \in Keys, body \in EditBodies :
            StartEdit(r, id, body.Image, body.Memory, body.Cpu)

Step(r) ==
    \/ EnvGet(r) \/ EnvMigrate(r) \/ EnvSetRec(r)
    \/ RenameGet(r) \/ RenameCheck(r) \/ RenameSetRec(r) \/ RenameNotify(r)
    \/ ArraysUserGet(r) \/ ArraysUserSet(r) \/ ArraysGlobalGet(r)
    \/ ArraysGlobalSet(r)
    \/ ImageGet(r) \/ ImageMigrate(r) \/ ImageAgent(r) \/ ImageSetRec(r)
    \/ ReinstallGet(r) \/ ReinstallAgent(r) \/ ReinstallUserGet(r)
    \/ ReinstallUserSet(r) \/ ReinstallGlobalGet(r) \/ ReinstallGlobalSet(r)
    \/ ReinstallSetRec(r)
    \/ EditGet(r) \/ EditAgent(r) \/ EditBatch(r) \/ EditUserGet(r)
    \/ EditUserSet(r) \/ EditGlobalGet(r) \/ EditGlobalSet(r)

\* one request at a time: every request runs to its response before the
\* next one arrives
Next == Start(1) \/ Step(1)
Spec == Init /\ [][Next]_vars

\* rename requests on the two instances, arriving and running concurrently
NextRename ==
    \E r \in Reqs :
        \/ \E id \in InstIds, newName \in NewNames : StartRename(r, id, newName)
        \/ RenameGet(r) \/ RenameCheck(r) \/ RenameSetRec(r)
        \/ ArraysUserGet(r) \/ ArraysUserSet(r) \/ ArraysGlobalGet(r)
        \/ ArraysGlobalSet(r)
        \/ RenameNotify(r)
SpecRename == Init /\ [][NextRename]_vars

\* env-change and reinstall requests on one instance, arriving and running
\* concurrently
SharedIds == {"i2"}
NextConcurrent ==
    \E r \in Reqs :
        \/ \E id \in SharedIds, variable \in Variables, value \in Values :
                StartEnv(r, id, variable, value)
        \/ EnvGet(r) \/ EnvMigrate(r) \/ EnvSetRec(r)
        \/ ArraysUserGet(r) \/ ArraysUserSet(r) \/ ArraysGlobalGet(r)
        \/ ArraysGlobalSet(r)
        \/ \E id \in SharedIds : StartReinstall(r, id)
        \/ ReinstallGet(r) \/ ReinstallAgent(r) \/ ReinstallUserGet(r)
        \/ ReinstallUserSet(r) \/ ReinstallGlobalGet(r)
        \/ ReinstallGlobalSet(r) \/ ReinstallSetRec(r)
SpecConcurrent == Init /\ [][NextConcurrent]_vars

\* env-change requests only, one at a time, with the wider inputs
NextEnv ==
    \/ \E id \in InstIds, variable \in EnvVariables, value \in EnvValues :
            StartEnv(1, id, variable, value)
    \/ EnvGet(1) \/ EnvMigrate(1) \/ EnvSetRec(1)
    \/ ArraysUserGet(1) \/ ArraysUserSet(1) \/ ArraysGlobalGet(1)
    \/ ArraysGlobalSet(1)
SpecEnv == Init /\ [][NextEnv]_vars

\* edits with the wider bodies, and the reinstalls that make an instance
\* findable by its container id, one request at a time
NextEdit ==
    \/ \E id \in Keys, body \in WideEditBodies :
            StartEdit(1, id, body.Image, body.Memory, body.Cpu)
    \/ EditGet(1) \/ EditAgent(1) \/ EditBatch(1) \/ EditUserGet(1)
    \/ EditUserSet(1) \/ EditGlobalGet(1) \/ EditGlobalSet(1)
    \/ \E id \in Keys : StartReinstall(1, id)
    \/ ReinstallGet(1) \/ ReinstallAgent(1) \/ ReinstallUserGet(1)
    \/ ReinstallUserSet(1) \/ ReinstallGlobalGet(1) \/ ReinstallGlobalSet(1)
    \/ ReinstallSetRec(1)
SpecEdit == Init /\ [][NextEdit]_vars

\* one request at a time on the instances, and suspensions set at any moment
NextSuspend ==
    \/ Start(1)
    \/ Step(1)
    \/ \E k \in Keys : Suspend(k)
SpecSuspend == Init /\ [][NextSuspend]_vars

\* reinstalls, image changes and env-changes, one request at a time, on a
\* store with an instance that has no Env
NextNoEnv ==
    \/ \E id \in InstIds, variable \in Variables, value \in Values :
            StartEnv(1, id, variable, value)
    \/ EnvGet(1) \/ EnvMigrate(1) \/ EnvSetRec(1)
    \/ ArraysUserGet(1) \/ ArraysUserSet(1) \/ ArraysGlobalGet(1)
    \/ ArraysGlobalSet(1)
    \/ \E id \in InstIds, image \in NewImages, user \in Users :
            StartImage(1, id, image, user)
    \/ ImageGet(1) \/ ImageMigrate(1) \/ ImageAgent(1) \/ ImageSetRec(1)
    \/ \E id \in InstIds : StartReinstall(1, id)
    \/ ReinstallGet(1) \/ ReinstallAgent(1) \/ ReinstallUserGet(1)
    \/ ReinstallUserSet(1) \/ ReinstallGlobalGet(1) \/ ReinstallGlobalSet(1)
    \/ ReinstallSetRec(1)
SpecNoEnv == InitNoEnv /\ [][NextNoEnv]_vars

\* the two request builders applied to the port strings
NextPorts ==
    \/ \E p \in PortStrings : PortsGiven(p)
    \/ prepareRequestData
    \/ prepareReinstallRequestData
SpecPorts == Init /\ [][NextPorts]_vars

\* ------------------------------------------------------------ properties
Mutations == {"reinstall", "edit", "rename", "env", "image"}
Done(r) == pc[r] = "done"
Succeeded(r, op) == Done(r) /\ req[r].op = op /\ resp[r] = "success"
AtRest == \A r \in Reqs : pc[r] \in {"idle", "done"}

\* the entries of a list that carry the instance id
EntriesOf(list, id) == {i \in 1..Len(list) : list[i].Id = id}

SameFields(a, b) ==
    /\ a.Name = b.Name /\ a.Image = b.Image /\ a.Memory = b.Memory
    /\ a.Cpu = b.Cpu /\ a.ContainerId = b.ContainerId /\ a.Env = b.Env

\* the request passed the check that lets its caller act: the admin gate of
\* edit, the per-instance authorization of the other four
Authorized(r) ==
    IF req[r].op = "edit" THEN h[r].admin = "true" ELSE h[r].authorized = "true"

\* C1: With one request at a time, whenever no request is running, every
\* per-instance record and the entries with its Id in its owner's list and in
\* the global list report the same Name, Image, Memory, Cpu, ContainerId and
\* Env.
C1_ViewsAgree ==
    AtRest =>
        \A k \in DOMAIN rec :
            /\ \A i \in EntriesOf(ulist[rec[k].User], rec[k].Id) :
                    SameFields(ulist[rec[k].User][i], rec[k])
            /\ \A i \in EntriesOf(glist, rec[k].Id) : SameFields(glist[i], rec[k])

\* C2: A request of a caller allowed to act that finds the record with
\* suspended = true ends with a suspended-specific answer, has called the
\* node agent never and has written no view.
C2_SuspendedRejected ==
    \A r \in Reqs :
        (Done(r) /\ req[r].op \in Mutations /\ h[r].found /\ Authorized(r)
            /\ instance[r].suspended = "true")
        => /\ resp[r] \in {"403_suspended", "redirect_suspended"}
           /\ ~h[r].agentCalled
           /\ h[r].wrote = {}

\* C3: A request has called the node agent or written a view only if it found
\* the instance record and its authorization check returned true (for edit the
\* check is the admin gate in front of the route).
C3_GatedByRecordAndAuthorization ==
    \A r \in Reqs :
        (h[r].agentCalled \/ h[r].wrote # {})
        => (h[r].found /\ Authorized(r))

C3_Witness ==
    /\ Succeeded(1, "reinstall")
    /\ h[1].agentCalled /\ h[1].authorized = "true"
    /\ InstanceKey(req[1].id) \in h[1].wrote

\* C4 as stated: a reinstall, edit or image change whose agent call failed
\* answers with a failure and has written no store key.
C4_NoWriteOnAgentFailure ==
    \A r \in Reqs :
        (Done(r) /\ req[r].op \in {"reinstall", "edit", "image"}
            /\ h[r].agentCalled /\ ~h[r].agentOk)
        => (resp[r] = "500" /\ h[r].wrote = {})

\* C4 as amended: such a request answers with a failure, has written neither
\* list, and the one write it can have made is image change's migration write
\* before the call, which leaves under {id}_instance the record as read with
\* suspended = false.
C4_NoUpdateOnAgentFailure ==
    \A r \in Reqs :
        (Done(r) /\ req[r].op \in {"reinstall", "edit", "image"}
            /\ h[r].agentCalled /\ ~h[r].agentOk)
        => /\ resp[r] = "500"
           /\ h[r].wrote \subseteq {InstanceKey(req[r].id)}
           /\ h[r].wrote # {} => (req[r].op = "image" /\ h[r].migrated)
           /\ rec[req[r].id] = instance[r]

C4_Witness ==
    /\ Done(1) /\ req[1].op = "image" /\ resp[1] = "500"
    /\ h[1].agentCalled /\ ~h[1].agentOk
    /\ h[1].wrote = {InstanceKey(req[1].id)}
    /\ rec[req[1].id].suspended = "false"

\* C5: After a successful edit addressed by id for which the agent returned
\* newContainerId, the updated record is stored under newContainerId and no
\* record is stored under id.
C5_EditMovesRecord ==
    Succeeded(1, "edit") =>
        /\ h[1].cid \in DOMAIN rec
        /\ rec[h[1].cid] = upd[1]
        /\ req[1].id \notin DOMAIN rec

\* C6: After a successful edit of an instance whose views agreed, its entries
\* in the owner's list and in the global list carry the new container id and
\* the new Image, Memory and Cpu.
EditedAs(e, u) ==
    /\ e.ContainerId = u.ContainerId /\ e.Image = u.Image
    /\ e.Memory = u.Memory /\ e.Cpu = u.Cpu

C6_EditUpdatesLists ==
    (Succeeded(1, "edit") /\ nops = 1) =>
        /\ \A i \in EntriesOf(ulist[instance[1].User], instance[1].Id) :
                EditedAs(ulist[instance[1].User][i], upd[1])
        /\ \A i \in EntriesOf(glist, instance[1].Id) : EditedAs(glist[i], upd[1])

\* C7: After a successful reinstall addressed by id, the record under id and
\* the entries of the instance in both lists carry the instance id the record
\* had before, the container id the agent returned, and the Name, Image,
\* Memory, Cpu and User the record had before.
ReinstalledAs(e, before, cid) ==
    /\ e.Id = before.Id /\ e.ContainerId = cid
    /\ e.Name = before.Name /\ e.Image = before.Image
    /\ e.Memory = before.Memory /\ e.Cpu = before.Cpu /\ e.User = before.User

C7_ReinstallKeepsFields ==
    Succeeded(1, "reinstall") =>
        /\ req[1].id \in DOMAIN rec
        /\ ReinstalledAs(rec[req[1].id], instance[1], h[1].cid)
        /\ \A i \in EntriesOf(ulist[instance[1].User], req[1].id) :
                ReinstalledAs(ulist[instance[1].User][i], instance[1], h[1].cid)
        /\ \A i \in EntriesOf(glist, req[1].id) :
                ReinstalledAs(glist[i], instance[1], h[1].cid)

\* C8 as stated: after a successful image change to X, the record and both
\* list entries have the agent's container id, Image = X and the
\* alternate-image list of X.
ChangedTo(e, cid, image, alt) ==
    e.ContainerId = cid /\ e.Image = image /\ e.AltImages = alt

C8_ImageBecomesRequested ==
    Succeeded(1, "image") =>
        /\ ChangedTo(rec[req[1].id], h[1].cid, req[1].image, AltImagesOf(req[1].image))
        /\ \A i \in EntriesOf(ulist[req[1].user], req[1].id) :
                ChangedTo(ulist[req[1].user][i], h[1].cid, req[1].image,
                          AltImagesOf(req[1].image))
        /\ \A i \in EntriesOf(glist, req[1].id) :
                ChangedTo(glist[i], h[1].cid, req[1].image, AltImagesOf(req[1].image))

\* C8 as amended: after a successful image change to X, the record under
\* {id}_instance, the one entry with Id = id in the list of the request's user
\* parameter and the one entry with Id = id in the global list are the same
\* record; its ContainerId is the containerId of the agent's answer, its Image
\* is the image of the imageData the record held before (not X), its
\* alternate-image list is the catalog's for that image, and X is in
\* currentimage.
C8_ImageChangeKeepsBaseImage ==
    Succeeded(1, "image") =>
        LET new == rec[req[1].id]
            base == instance[1].imageData.Image
        IN  /\ ChangedTo(new, h[1].cid, base, AltImagesOf(base))
            /\ new.currentimage = req[1].image
            /\ new.imageData = instance[1].imageData
            /\ Cardinality(EntriesOf(ulist[req[1].user], req[1].id)) = 1
            /\ \A i \in EntriesOf(ulist[req[1].user], req[1].id) :
                    ulist[req[1].user][i] = new
            /\ Cardinality(EntriesOf(glist, req[1].id)) = 1
            /\ \A i \in EntriesOf(glist, req[1].id) : glist[i] = new

C8_Witness ==
    /\ Succeeded(1, "image")
    /\ h[1].cid \in AgentIds
    /\ rec[req[1].id].ContainerId = h[1].cid
    /\ rec[req[1].id].Image = "img1"
    /\ rec[req[1].id].currentimage = "img2"
    /\ rec[req[1].id].AltImages = <<"img2">>

\* C9: A rename that reaches the uniqueness check while an entry of the
\* global list of another instance has the new name is answered with a
\* validation error and writes no view, and a rename of an instance to its own
\* current name, which no other instance has, succeeds.
OthersNamed(name, id) ==
    {i \in 1..Len(glist) : glist[i].Name = name /\ glist[i].Id # id}

C9_RenameUniqueness ==
    (Done(1) /\ req[1].op = "rename" /\ h[1].authorized = "true"
        /\ instance[1].suspended # "true")
    => /\ OthersNamed(req[1].newName, instance[1].Id) # {}
          => (resp[1] = "400" /\ h[1].wrote = {})
       /\ (req[1].newName = instance[1].Name
            /\ OthersNamed(req[1].newName, instance[1].Id) = {})
          => resp[1] = "success"

\* C10: No two entries of the global list with different instance ids have
\* the same Name.
C10_NamesUnique ==
    \A i, j \in 1..Len(glist) :
        glist[i].Id # glist[j].Id => glist[i].Name # glist[j].Name

\* C11: A rename whose notification of the node agent failed is answered with
\* success, and the new name is in the record under the id of the request
\* and in the instance's entry in its owner's list and in the global list.
C11_RenameNotRolledBack ==
    (Done(1) /\ req[1].op = "rename" /\ h[1].agentCalled /\ ~h[1].agentOk)
    => /\ resp[1] = "success"
       /\ rec[req[1].id].Name = req[1].newName
       /\ EntriesOf(ulist[instance[1].User], instance[1].Id) # {}
       /\ \A i \in EntriesOf(ulist[instance[1].User], instance[1].Id) :
                ulist[instance[1].User][i].Name = req[1].newName
       /\ EntriesOf(glist, instance[1].Id) # {}
       /\ \A i \in EntriesOf(glist, instance[1].Id) :
                glist[i].Name = req[1].newName

C11_Witness ==
    /\ Succeeded(1, "rename") /\ h[1].agentCalled /\ ~h[1].agentOk
    /\ req[1].newName = "api" /\ instance[1].Name # "api"
    /\ rec[req[1].id].Name = "api"
    /\ \E i \in 1..Len(glist) : glist[i].Name = "api"

\* C12: When an env-change repeats, with the same instance, variable and
\* value, the env-change answered with success just before it, the stored
\* environment list after it is the list it read (same length, same
\* contents) and has the entry variable=value.
C12_EnvChangeIdempotent ==
    (Succeeded(1, "env") /\ h[1].repeat)
    => /\ rec[req[1].id].Env = instance[1].Env
       /\ \E i \in 1..Len(rec[req[1].id].Env.a) :
            rec[req[1].id].Env.a[i] = req[1].variable \o <<"=">> \o req[1].value

\* C13: After a successful env-change(variable, value) the stored list has,
\* at every position of the list read, variable=value where the entry read
\* had the key variable and the entry read otherwise; it is one entry longer,
\* by variable=value at the end, exactly when no entry read had that key; the
\* global list holds the same list and no request went to the node agent.
C13_EnvReplacedOrAppended ==
    Succeeded(1, "env") =>
        LET old == instance[1].Env.a
            new == rec[req[1].id].Env.a
            entry == req[1].variable \o <<"=">> \o req[1].value
            has == \E i \in 1..Len(old) : KeyOf(old[i]) = req[1].variable
        IN  /\ ~h[1].agentCalled
            /\ Len(new) = IF has THEN Len(old) ELSE Len(old) + 1
            /\ \A i \in 1..Len(old) :
                    new[i] = IF KeyOf(old[i]) = req[1].variable THEN entry ELSE old[i]
            /\ ~has => new[Len(new)] = entry
            /\ \A i \in EntriesOf(glist, instance[1].Id) : glist[i].Env.a = new

C13_Witness ==
    /\ Succeeded(1, "env") /\ req[1].id = "i1"
    /\ instance[1].Env.a = << <<"A", "=", "0">>, <<"B", "=">> >>
    /\ rec["i1"].Env.a = << <<"A", "=", "1">>, <<"B", "=">> >>

\* C14: In every stored record the keys of the environment list are pairwise
\* distinct.
C14_EnvKeysUnique ==
    \A k \in DOMAIN rec :
        \A i, j \in 1..Len(rec[k].Env.a) :
            i # j => KeyOf(rec[k].Env.a[i]) # KeyOf(rec[k].Env.a[j])

\* C15: Once both request builders have run on a port string, each has
\* exactly one exposed-port entry container/tcp and one binding
\* container/tcp -> host for every segment with both sides (the last such
\* segment deciding the host of a container port named twice) and nothing
\* else, the sides being read either as they stand or without surrounding
\* blanks, the same way for both builders.
BothSides(seg, trim) ==
    LET sides == Split(seg, ":")
        c == IF trim THEN Trim(sides[1]) ELSE sides[1]
        hp == IF Len(sides) < 2 THEN <<>>
              ELSE IF trim THEN Trim(sides[2]) ELSE sides[2]
    IN  [ok |-> c # <<>> /\ hp # <<>>, key |-> c \o <<"/tcp">>, host |-> hp]

ExpectedPorts(p, trim) ==
    LET segs == Split(p, ",")
        good == {i \in 1..Len(segs) : BothSides(segs[i], trim).ok}
        last == {i \in good : \A j \in good :
                    BothSides(segs[j], trim).key = BothSides(segs[i], trim).key
                    => j <= i}
    IN  [built |-> TRUE,
         ExposedPorts |-> {BothSides(segs[i], trim).key : i \in good},
         PortBindings |-> {<<BothSides(segs[i], trim).key,
                             BothSides(segs[i], trim).host>> : i \in last}]

C15_PortMappings ==
    (\A bd \in Builders : requestData[bd].built)
    => \E trim \in BOOLEAN :
            \A bd \in Builders : requestData[bd] = ExpectedPorts(ports, trim)

\* C16: An edit of an administrator, addressed to an instance of the initial
\* store, that supplies none of Image, Memory and Cpu, or a Memory or a Cpu
\* that is not a positive number, is answered with 400, has sent nothing to
\* the node agent and has written no view.
Supplied(v) == v.t # "undefined"
Positive(v) == v.t = "num" /\ (v.n > 0 \/ (v.n = 0 /\ v.h))

C16_EditValidation ==
    (Done(1) /\ req[1].op = "edit" /\ h[1].admin = "true"
        /\ req[1].id \in InstIds
        /\ \/ (req[1].Image = Undef /\ ~Supplied(req[1].Memory)
                /\ ~Supplied(req[1].Cpu))
           \/ (Supplied(req[1].Memory) /\ ~Positive(req[1].Memory))
           \/ (Supplied(req[1].Cpu) /\ ~Positive(req[1].Cpu)))
    => (resp[1] = "400" /\ ~h[1].agentCalled /\ h[1].wrote = {})

\* C17: A reinstall, rename, env-change or image change of an authorized
\* caller that read a record without the suspended field and was answered
\* with success leaves, under the id of the request, a record with
\* suspended = false.
C17_MigrationOnRead ==
    \A r \in Reqs :
        (Done(r) /\ req[r].op \in {"reinstall", "rename", "env", "image"}
            /\ h[r].found /\ h[r].authorized = "true" /\ resp[r] = "success"
            /\ (instance[r].suspended = Undef \/ h[r].migrated))
        => /\ req[r].id \in DOMAIN rec
           /\ rec[req[r].id].suspended = "false"

\* C18: When two concurrent requests on the same instance id have both been
\* answered with success, each view holds, whole, what one of the two wrote:
\* the record is the record of one of them, and each list has exactly one
\* entry of the instance, the record of one of them; which of the two may
\* differ from view to view.
C18_LastWriterWinsPerView ==
    (Succeeded(1, req[1].op) /\ Succeeded(2, req[2].op) /\ req[1].id = req[2].id)
    => LET id == req[1].id
           written == {upd[1], upd[2]}
           u == upd[1].User
       IN  /\ rec[id] \in written
           /\ Cardinality(EntriesOf(glist, id)) = 1
           /\ \A i \in EntriesOf(glist, id) : glist[i] \in written
           /\ Cardinality(EntriesOf(ulist[u], id)) = 1
           /\ \A i \in EntriesOf(ulist[u], id) : ulist[u][i] \in written

\* the two requests were the only ones, and the record and the entry of the
\* global list are not the same
C18_Witness ==
    /\ nops = 2
    /\ Succeeded(1, req[1].op) /\ Succeeded(2, req[2].op)
    /\ req[1].id = req[2].id
    /\ \E i \in EntriesOf(glist, req[1].id) :
            ~SameFields(glist[i], rec[req[1].id])

\* C19: Every request that has arrived and has not been answered can take
\* its next step: none waits for something that may never come.
C19_EveryRequestProceeds ==
    \A r \in Reqs : pc[r] \notin {"idle", "done"} => ENABLED Step(r)

\* C20: A mutation request has recorded its audit entry only if it found the
\* record, passed its authorization check, did not find the instance
\* suspended, got an answer from every agent call it made and has written the
\* record, its owner's list and the global list; and a request answered with
\* anything but success has recorded no audit entry.
C20_AuditAfterAllSteps ==
    \A r \in Reqs :
        (req[r].op \in Mutations /\ h[r].audited)
        => /\ h[r].found /\ Authorized(r)
           /\ instance[r].suspended # "true"
           /\ h[r].agentCalled => h[r].agentOk
           /\ {InstanceKey(req[r].id), UserKey(instance[r].User), "instances"}
                  \subseteq h[r].wrote
           /\ Done(r) => resp[r] = "success"

\* the ids under which the instance a request updates is known: the Id of
\* the record it read and the Id of the data it writes
UpdatedIds(r) == {instance[r].Id, upd[r].Id}
EntriesOfUpdated(list, r) == {i \in 1..Len(list) : list[i].Id \in UpdatedIds(r)}

\* the entries of a list that belong to other instances, in order
Others(list, ids) == SelectSeq(list, LAMBDA e : e.Id \notin ids)
SameOthers(before, after, ids) ==
    /\ Len(Others(before, ids)) = Len(Others(after, ids))
    /\ {Others(before, ids)[i] : i \in 1..Len(Others(before, ids))}
        = {Others(after, ids)[i] : i \in 1..Len(Others(after, ids))}

\* the per-user list a request writes: edit the list of the owner it read,
\* the other operations the list of the User of the data they store
WrittenUser(r) == IF req[r].op = "edit" THEN instance[r].User ELSE upd[r].User

\* C21: With one request at a time, the step that writes a per-user list and
\* the step that writes the global list leave the entries of other instances
\* in every list as they were and leave exactly one entry of the updated
\* instance in the list written.
C21_ListUpdateFrame ==
    [][ /\ pc[1] = "ul_set"
            => /\ \A u \in Users : SameOthers(ulist[u], ulist'[u], UpdatedIds(1))
               /\ Cardinality(EntriesOfUpdated(ulist'[WrittenUser(1)], 1)) = 1
               /\ glist' = glist
        /\ pc[1] = "gl_set"
            => /\ SameOthers(glist, glist', UpdatedIds(1))
               /\ Cardinality(EntriesOfUpdated(glist', 1)) = 1
               /\ ulist' = ulist ]_vars

\* C22: No step of the system takes the flag suspended = true away from an
\* instance: whenever a record has suspended = true, after the step some
\* record of the same instance has suspended = true, also when the flag was
\* set while a request was between its read of the record and its writes.
C22_SuspensionKept ==
    [][ \A k \in DOMAIN rec :
            rec[k].suspended = "true"
            => \E k2 \in DOMAIN rec' :
                    rec'[k2].Id = rec[k].Id /\ rec'[k2].suspended = "true" ]_vars

\* C23: After a successful mutation the records of the instance have the
\* User the record had when the request read it, the instance has an entry in
\* that user's list and no entry in the list of any other user.
C23_OwnerUnchanged ==
    (Done(1) /\ req[1].op \in Mutations /\ resp[1] = "success")
    => LET owner == instance[1].User IN
       /\ \A k \in DOMAIN rec : rec[k].Id \in UpdatedIds(1) => rec[k].User = owner
       /\ EntriesOfUpdated(ulist[owner], 1) # {}
       /\ \A u \in Users \ {owner} : EntriesOfUpdated(ulist[u], 1) = {}

\* C24: Every per-instance record stored under the key {k}_instance has
\* Id = k.
C24_RecordKeyIsId ==
    \A k \in DOMAIN rec : rec[k].Id = k

\* C25: After a reinstall, edit or image change whose agent call was
\* answered, either the answer carried a container id, and then every record
\* and list entry of the instance has a defined, non-empty ContainerId, or it
\* carried none, and then the request is answered with a failure and has
\* written neither a list nor a new record.
C25_ContainerIdDefined ==
    (Done(1) /\ req[1].op \in {"reinstall", "edit", "image"} /\ h[1].agentOk)
    => IF StrTruthy(h[1].cid)
       THEN /\ \A k \in DOMAIN rec :
                    rec[k].Id \in UpdatedIds(1) => StrTruthy(rec[k].ContainerId)
            /\ \A u \in Users : \A i \in EntriesOfUpdated(ulist[u], 1) :
                    StrTruthy(ulist[u][i].ContainerId)
            /\ \A i \in EntriesOfUpdated(glist, 1) : StrTruthy(glist[i].ContainerId)
       ELSE /\ resp[1] # "success"
            /\ h[1].wrote \subseteq {InstanceKey(req[1].id)}
            /\ rec[req[1].id] = instance[1]

\* C26: After a successful reinstall or image change the record of the
\* instance holds a list as its Env, and an env-change ends in an internal
\* error only on a record that has never had an Env.
C26_EnvIsList ==
    /\ (Done(1) /\ req[1].op \in {"reinstall", "image"} /\ resp[1] = "success")
        => IsArray(rec[req[1].id].Env)
    /\ (Done(1) /\ req[1].op = "env" /\ resp[1] = "500")
        => instance[1].Env = EnvUndef

\* C27: After a successful edit the store holds a per-instance record that
\* is the updated instance, with the Image, Memory and Cpu of the edit.
C27_EditKeepsRecord ==
    Succeeded(1, "edit") => \E k \in DOMAIN rec : rec[k] = upd[1]

\* C28: When two requests on two different instances have both been answered
\* with success, the global list and the list of each instance's owner hold
\* an entry of each instance that is the data its request wrote.
C28_NoLostListUpdate ==
    (/\ Succeeded(1, req[1].op) /\ Succeeded(2, req[2].op)
     /\ req[1].id # req[2].id)
    => \A r \in Reqs :
        /\ \E i \in EntriesOf(glist, req[r].id) : glist[i] = upd[r]
        /\ \E i \in EntriesOf(ulist[upd[r].User], req[r].id) :
                ulist[upd[r].User][i] = upd[r]

====
